---- MODULE Spec2Model ----
(***************************************************************************)
(* Model of src/tetrise.h (namespace Tetrise): interior-edge extraction,   *)
(* the four tetrahedron construction modes, the frame matrices, the        *)
(* degeneracy filter, the dual-graph adjacency builder and the two         *)
(* distance primitives.                                                    *)
(*                                                                         *)
(* C++ vectors are modelled as sequences; At(s, i) reads the element the   *)
(* code writes s[i] (0-based).  Point positions are integer vectors lying  *)
(* in the plane z = 0, so that every cross product is parallel to the z    *)
(* axis and normalized() is exact in integer arithmetic.                   *)
(***************************************************************************)
EXTENDS Integers, Sequences, FiniteSets, TLC

VARIABLES tetMode, faceList, edgeList, vertexList, tetList, dim, P,
          adjacencyList, oob, pc, round, faceId, prev,
          dp, da, db, dc, dres

vars == <<tetMode, faceList, edgeList, vertexList, tetList, dim, P,
          adjacencyList, oob, pc, round, faceId, prev,
          dp, da, db, dc, dres>>

topoVars == <<tetMode, faceList, edgeList, vertexList, tetList, dim, P,
              adjacencyList, oob, pc, round, faceId, prev>>

distVars == <<dp, da, db, dc, dres>>

-----------------------------------------------------------------------------
(* Bounds of the model *)

\* number of real points of the mesh (the numPts argument)
NumPoints == 4

\* largest number of triangles of an input triangle list
MaxFaces == 3

\* largest number of removeDegenerate calls in one run
MaxRounds == 2

-----------------------------------------------------------------------------
(* Program constants *)

TM_FACE == 0

TM_EDGE == 1

TM_VERTEX == 2

TM_VFACE == 10

\* EPSILON is 10e-6, kept as the fraction EPSILON_NUM / EPSILON_DEN
EPSILON_NUM == 10

EPSILON_DEN == 1000000

Modes == {TM_FACE, TM_EDGE, TM_VERTEX, TM_VFACE}

-----------------------------------------------------------------------------
(* Helpers for C++ containers *)

At(s, i) == s[i + 1]

Size(s) == Len(s)

Abs(x) == IF x < 0 THEN -x ELSE x

\* the flat int vector of a sequence of triples
RECURSIVE Flatten(_)
Flatten(ts) ==
    IF ts = <<>> THEN <<>> ELSE Head(ts) \o Flatten(Tail(ts))

-----------------------------------------------------------------------------
(* class edge and class vertex *)

edge(s, t, f, g) == [vertices |-> <<s, t>>, faces |-> <<f, g>>]

vertex(idx, list) == [index |-> idx, connectedTriangles |-> list]

-----------------------------------------------------------------------------
(* makeEdgeList *)

\* makeEdgeListStep without the exchange of s and t when s > t
makeEdgeListStepDirected(st, fl, i, j) ==
    LET s  == At(fl, 3 * i + j)
        t  == At(fl, 3 * i + ((j + 1) % 3))
        pa == <<s, t>>
    IN  IF pa \notin DOMAIN st.edges
        THEN [edges |-> [q \in DOMAIN st.edges \cup {pa} |->
                            IF q = pa THEN i ELSE st.edges[q]],
              edgeList |-> st.edgeList]
        ELSE [edges |-> st.edges,
              edgeList |-> Append(st.edgeList, edge(s, t, st.edges[pa], i))]

\* makeEdgeListStep recording the side index j where the face index i belongs
makeEdgeListStepSideIndex(st, fl, i, j) ==
    LET s0 == At(fl, 3 * i + j)
        t0 == At(fl, 3 * i + ((j + 1) % 3))
        s  == IF s0 > t0 THEN t0 ELSE s0
        t  == IF s0 > t0 THEN s0 ELSE t0
        pa == <<s, t>>
    IN  IF pa \notin DOMAIN st.edges
        THEN [edges |-> [q \in DOMAIN st.edges \cup {pa} |->
                            IF q = pa THEN j ELSE st.edges[q]],
              edgeList |-> st.edgeList]
        ELSE [edges |-> st.edges,
              edgeList |-> Append(st.edgeList, edge(s, t, st.edges[pa], i))]

\* the body of the inner loop for face i and side j; st holds the map
\* `edges` (a function on the pairs seen so far) and the edgeList built
makeEdgeListStep(st, fl, i, j) ==
    LET s0 == At(fl, 3 * i + j)
        t0 == At(fl, 3 * i + ((j + 1) % 3))
        s  == IF s0 > t0 THEN t0 ELSE s0
        t  == IF s0 > t0 THEN s0 ELSE t0
        pa == <<s, t>>
    IN  IF pa \notin DOMAIN st.edges
        THEN [edges |-> [q \in DOMAIN st.edges \cup {pa} |->
                            IF q = pa THEN i ELSE st.edges[q]],
              edgeList |-> st.edgeList]
        ELSE [edges |-> st.edges,
              edgeList |-> Append(st.edgeList, edge(s, t, st.edges[pa], i))]

\* the state after the first n iterations of the inner loop
RECURSIVE makeEdgeListLoop(_, _)
makeEdgeListLoop(fl, n) ==
    IF n = 0
    THEN [edges |-> <<>>, edgeList |-> <<>>]
    ELSE makeEdgeListStep(makeEdgeListLoop(fl, n - 1), fl,
                          (n - 1) \div 3, (n - 1) % 3)

makeEdgeList(fl) == makeEdgeListLoop(fl, 3 * (Size(fl) \div 3)).edgeList

-----------------------------------------------------------------------------
(* makeTetList *)

\* makeTetListFace with the ghost points numbered from 1
makeTetListFaceFromOne(numPts, fl, i) ==
    <<At(fl, 3 * i), At(fl, 3 * i + 1), At(fl, 3 * i + 2), i + 1 + numPts>>

\* TM_FACE: the four entries of tetrahedron i
makeTetListFace(numPts, fl, i) ==
    <<At(fl, 3 * i), At(fl, 3 * i + 1), At(fl, 3 * i + 2), i + numPts>>

\* TM_EDGE: the while loop that looks in face f for the corner that is not
\* an endpoint of edge e, started at k
RECURSIVE findOpposite(_, _, _, _)
findOpposite(fl, f, e, k) ==
    IF 3 * f + k < Size(fl)
       /\ (At(fl, 3 * f + k) = e.vertices[1] \/ At(fl, 3 * f + k) = e.vertices[2])
    THEN findOpposite(fl, f, e, k + 1)
    ELSE k

\* TM_EDGE: the four entries of tetrahedron 2*i+j
makeTetListEdge(numPts, fl, el, i, j) ==
    LET e == At(el, i)
        f == e.faces[j + 1]
        k == findOpposite(fl, f, e, 0)
    IN  <<At(fl, 3 * f + ((k + 1) % 3)), At(fl, 3 * f + ((k + 2) % 3)),
          At(fl, 3 * f + k), i + numPts>>

\* TM_VERTEX / TM_VFACE: vertex i after its first n wedges; st holds the
\* tetList built so far and the running counter cur
RECURSIVE makeTetListFan(_, _, _, _, _, _)
makeTetListFan(tm, numPts, vl, i, n, st) ==
    IF n = 0
    THEN st
    ELSE LET q == makeTetListFan(tm, numPts, vl, i, n - 1, st)
             v == At(vl, i)
             j == n - 1
         IN  [tetList |-> q.tetList \o
                  <<v.index,
                    At(v.connectedTriangles, 2 * j),
                    At(v.connectedTriangles, 2 * j + 1),
                    IF tm = TM_VERTEX THEN numPts + i ELSE numPts + q.cur>>,
              cur |-> q.cur + 1]

\* fanTets with the last neighbor pair left out
fanTetsButLast(v) ==
    IF Size(v.connectedTriangles) \div 2 = 0
    THEN 0
    ELSE (Size(v.connectedTriangles) \div 2) - 1

\* TM_VERTEX / TM_VFACE: the bound connectedTriangles.size()/2 of the wedge loop
fanTets(v) == Size(v.connectedTriangles) \div 2

\* TM_VERTEX / TM_VFACE: the state after the first m vertices
RECURSIVE makeTetListVertices(_, _, _, _)
makeTetListVertices(tm, numPts, vl, m) ==
    IF m = 0
    THEN [tetList |-> <<>>, cur |-> 0]
    ELSE makeTetListFan(tm, numPts, vl, m - 1, fanTets(At(vl, m - 1)),
                        makeTetListVertices(tm, numPts, vl, m - 1))

\* the rebuilt tetList and the returned dim
makeTetList(tm, numPts, fl, el, vl) ==
    IF tm = TM_FACE
    THEN LET numTet == Size(fl) \div 3
         IN  [tetList |-> Flatten([i \in 1..numTet |->
                                     makeTetListFace(numPts, fl, i - 1)]),
              dim |-> numTet + numPts]
    ELSE IF tm = TM_EDGE
    THEN [tetList |-> Flatten([n \in 1..(2 * Size(el)) |->
                                 makeTetListEdge(numPts, fl, el,
                                                 (n - 1) \div 2, (n - 1) % 2)]),
          dim |-> numPts + Size(el)]
    ELSE IF tm = TM_VERTEX
    THEN [tetList |-> makeTetListVertices(tm, numPts, vl, Size(vl)).tetList,
          dim |-> numPts + Size(vl)]
    ELSE IF tm = TM_VFACE
    THEN LET tl == makeTetListVertices(tm, numPts, vl, Size(vl)).tetList
         IN  [tetList |-> tl, dim |-> numPts + (Size(tl) \div 4)]
    ELSE [tetList |-> <<>>, dim |-> 0]

-----------------------------------------------------------------------------
(* Vectors.  A vector is a record [v, nan]: v its three integer            *)
(* coordinates, nan set when its coordinates are NaN (the result of 0/0).  *)

Vec(x, y, z) == [v |-> <<x, y, z>>, nan |-> FALSE]

VZero == Vec(0, 0, 0)

VAdd(a, b) ==
    [v |-> <<a.v[1] + b.v[1], a.v[2] + b.v[2], a.v[3] + b.v[3]>>,
     nan |-> a.nan \/ b.nan]

VSub(a, b) ==
    [v |-> <<a.v[1] - b.v[1], a.v[2] - b.v[2], a.v[3] - b.v[3]>>,
     nan |-> a.nan \/ b.nan]

\* (a + b) / 2; the point coordinates are even, so the division is exact
VMid(a, b) ==
    [v |-> <<(a.v[1] + b.v[1]) \div 2, (a.v[2] + b.v[2]) \div 2,
             (a.v[3] + b.v[3]) \div 2>>,
     nan |-> a.nan \/ b.nan]

Cross(a, b) ==
    [v |-> <<a.v[2] * b.v[3] - a.v[3] * b.v[2],
             a.v[3] * b.v[1] - a.v[1] * b.v[3],
             a.v[1] * b.v[2] - a.v[2] * b.v[1]>>,
     nan |-> a.nan \/ b.nan]

SquaredNorm(a) == a.v[1] * a.v[1] + a.v[2] * a.v[2] + a.v[3] * a.v[3]

\* the exact square root of a perfect square
Sqrt(n) == CHOOSE r \in 0..n : r * r = n

\* How Eigen's normalized() treats the zero vector: 3.2 divides by the norm
\* and returns NaN coordinates, 3.3 and later return the vector unchanged.
ZeroNormalized == {"nan", "zero"}

\* a.normalized(); zn is the Eigen behaviour on the zero vector
Normalized(a, zn) ==
    IF a.nan THEN a
    ELSE IF SquaredNorm(a) = 0
    THEN [v |-> a.v, nan |-> (zn = "nan")]
    ELSE LET n == Sqrt(SquaredNorm(a))
         IN  [v |-> <<a.v[1] \div n, a.v[2] \div n, a.v[3] \div n>>,
              nan |-> FALSE]

\* the positions of the points: the grid points (2c, 2r, 0), three to a row
pts == [i \in 0..(NumPoints - 1) |-> Vec(2 * (i % 3), 2 * (i \div 3), 0)]

-----------------------------------------------------------------------------
(* mat and the determinant of a frame *)

\* the rows of the frame; the fourth column of the matrix is the constant 1
mat(p0, p1, p2, c) == <<p0, p1, p2, c>>

Det3(a, b, c) ==
      a[1] * (b[2] * c[3] - b[3] * c[2])
    - a[2] * (b[1] * c[3] - b[3] * c[1])
    + a[3] * (b[1] * c[2] - b[2] * c[1])

\* Matrix4d::determinant() of a frame, expanded along the column of ones
Determinant(m) ==
    [v |-> - Det3(m[2].v, m[3].v, m[4].v) + Det3(m[1].v, m[3].v, m[4].v)
           - Det3(m[1].v, m[2].v, m[4].v) + Det3(m[1].v, m[2].v, m[3].v),
     nan |-> m[1].nan \/ m[2].nan \/ m[3].nan \/ m[4].nan]

\* abs(m.determinant()) > EPSILON; a comparison with NaN is false
IsGood(m) ==
    LET d == Determinant(m)
    IN  ~d.nan /\ Abs(d.v) * EPSILON_DEN > EPSILON_NUM

-----------------------------------------------------------------------------
(* tetMatrix *)

\* TM_FACE / TM_VFACE: the frame of tetrahedron i
tetMatrixFace(tl, i, zn) ==
    LET p0 == pts[At(tl, 4 * i)]
        p1 == pts[At(tl, 4 * i + 1)]
        p2 == pts[At(tl, 4 * i + 2)]
        u  == VSub(p1, p0)
        v  == VSub(p2, p0)
        q  == Normalized(Cross(u, v), zn)
        c  == VAdd(q, p0)
    IN  mat(p0, p1, p2, c)

\* TM_EDGE: the normalized normal of face f
faceNormal(fl, f, zn) ==
    LET u == VSub(pts[At(fl, 3 * f + 1)], pts[At(fl, 3 * f)])
        v == VSub(pts[At(fl, 3 * f + 2)], pts[At(fl, 3 * f)])
    IN  Normalized(Cross(u, v), zn)

\* TM_EDGE: the frame of tetrahedron 2*i+j
tetMatrixEdge(tl, fl, el, i, j, zn) ==
    LET e   == At(el, i)
        c0  == VAdd(VAdd(VZero, faceNormal(fl, e.faces[1], zn)),
                    faceNormal(fl, e.faces[2], zn))
        c   == VAdd(VMid(pts[e.vertices[1]], pts[e.vertices[2]]),
                    Normalized(c0, zn))
        p0  == pts[At(tl, 8 * i + 4 * j)]
        p1  == pts[At(tl, 8 * i + 4 * j + 1)]
        p2  == pts[At(tl, 8 * i + 4 * j + 2)]
    IN  mat(p0, p1, p2, c)

\* TM_VERTEX: the sum of the normalized wedge normals of v over its first n
\* wedges
RECURSIVE fanNormalSum(_, _, _)
fanNormalSum(v, n, zn) ==
    IF n = 0
    THEN VZero
    ELSE LET p0 == pts[v.index]
             p1 == pts[At(v.connectedTriangles, 2 * (n - 1))]
             p2 == pts[At(v.connectedTriangles, 2 * (n - 1) + 1)]
         IN  VAdd(fanNormalSum(v, n - 1, zn),
                  Normalized(Cross(VSub(p1, p0), VSub(p2, p0)), zn))

\* TM_VERTEX: the frames of the wedges of vertex v
tetMatrixFan(v, zn) ==
    LET nw == Size(v.connectedTriangles) \div 2
        p0 == pts[v.index]
        c  == VAdd(p0, Normalized(fanNormalSum(v, nw, zn), zn))
    IN  [n \in 1..nw |->
            mat(p0, pts[At(v.connectedTriangles, 2 * (n - 1))],
                pts[At(v.connectedTriangles, 2 * (n - 1) + 1)], c)]

\* TM_VERTEX: the frames of the first m vertices
RECURSIVE tetMatrixVertices(_, _, _)
tetMatrixVertices(vl, m, zn) ==
    IF m = 0
    THEN <<>>
    ELSE tetMatrixVertices(vl, m - 1, zn) \o tetMatrixFan(At(vl, m - 1), zn)

\* the frame list P
tetMatrix(tm, tl, fl, el, vl, zn) ==
    LET numTet == Size(tl) \div 4
    IN  IF tm = TM_FACE \/ tm = TM_VFACE
        THEN [n \in 1..numTet |-> tetMatrixFace(tl, n - 1, zn)]
        ELSE IF tm = TM_EDGE
        THEN [n \in 1..(2 * Size(el)) |->
                 tetMatrixEdge(tl, fl, el, (n - 1) \div 2, (n - 1) % 2, zn)]
        ELSE IF tm = TM_VERTEX
        THEN tetMatrixVertices(vl, Size(vl), zn)
        ELSE <<>>

-----------------------------------------------------------------------------
(* removeDegenerate *)

\* the elements of s at the (0-based, increasing) positions listed in good
Pick(s, good) == [n \in 1..Size(good) |-> At(s, good[n])]

\* the goodList loop: the increasing list of the indices i below n whose
\* test isGood[i + 1] passed
RECURSIVE goodListUpTo(_, _)
goodListUpTo(n, isGood) ==
    IF n = 0
    THEN <<>>
    ELSE IF isGood[n]
         THEN Append(goodListUpTo(n - 1, isGood), n - 1)
         ELSE goodListUpTo(n - 1, isGood)

\* TM_FACE: face i is kept when its tetrahedron is good
goodFace(Pm, i) == IsGood(At(Pm, i))

\* goodEdge reading the frames i and i+1 instead of 2i and 2i+1
goodEdgeStride(Pm, i) == IsGood(At(Pm, i)) /\ IsGood(At(Pm, i + 1))

\* goodEdge keeping an edge when either of its tetrahedra is good
goodEdgeEither(Pm, i) == IsGood(At(Pm, 2 * i)) \/ IsGood(At(Pm, 2 * i + 1))

\* TM_EDGE: edge i is kept when both of its tetrahedra are good
goodEdge(Pm, i) == IsGood(At(Pm, 2 * i)) /\ IsGood(At(Pm, 2 * i + 1))

\* TM_VERTEX / TM_VFACE: the value of cur when the loop reaches vertex i
RECURSIVE wedgeOffset(_, _)
wedgeOffset(vl, i) ==
    IF i = 0
    THEN 0
    ELSE wedgeOffset(vl, i - 1) + (Size(At(vl, i - 1).connectedTriangles) \div 2)

\* goodVertex keeping a vertex when one of its wedges is good
goodVertexAny(Pm, vl, i) ==
    \/ Size(At(vl, i).connectedTriangles) \div 2 = 0
    \/ \E j \in 0..((Size(At(vl, i).connectedTriangles) \div 2) - 1) :
          IsGood(At(Pm, wedgeOffset(vl, i) + j))

\* TM_VERTEX / TM_VFACE: isGood after the wedge loop of vertex i
goodVertex(Pm, vl, i) ==
    \A j \in 0..((Size(At(vl, i).connectedTriangles) \div 2) - 1) :
        IsGood(At(Pm, wedgeOffset(vl, i) + j))

\* the filtered base lists, the rebuilt tetList and the returned dim
removeDegenerate(tm, numPts, tl, fl, el, vl, Pm) ==
    LET nfl == IF tm = TM_FACE
               THEN LET goodList == goodListUpTo(Size(tl) \div 4,
                                        [n \in 1..(Size(tl) \div 4) |->
                                            goodFace(Pm, n - 1)])
                    IN  Flatten([n \in 1..Size(goodList) |->
                                   <<At(fl, 3 * goodList[n]),
                                     At(fl, 3 * goodList[n] + 1),
                                     At(fl, 3 * goodList[n] + 2)>>])
               ELSE fl
        nel == IF tm = TM_FACE
               THEN makeEdgeList(nfl)
               ELSE IF tm = TM_EDGE
               THEN Pick(el, goodListUpTo(Size(el),
                                          [n \in 1..Size(el) |->
                                              goodEdge(Pm, n - 1)]))
               ELSE el
        nvl == IF tm = TM_VERTEX \/ tm = TM_VFACE
               THEN Pick(vl, goodListUpTo(Size(vl),
                                          [n \in 1..Size(vl) |->
                                              goodVertex(Pm, vl, n - 1)]))
               ELSE vl
        r   == makeTetList(tm, numPts, nfl, nel, nvl)
    IN  [faceList |-> nfl, edgeList |-> nel, vertexList |-> nvl,
         tetList |-> r.tetList, dim |-> r.dim]

-----------------------------------------------------------------------------
(* makeAdjacencyList *)

\* adjacencyList[a].push_back(x); a write to an index adjacencyList does not
\* hold lands outside the list and leaves its entries as they are
pushBack(adj, a, x) ==
    IF a \in 0..(Size(adj) - 1)
    THEN [adj EXCEPT ![a + 1] = Append(@, x)]
    ELSE adj

\* TM_FACE: adjacencyList after the first n edges
RECURSIVE adjacencyFace(_, _, _)
adjacencyFace(el, n, adj) ==
    IF n = 0
    THEN adj
    ELSE LET e == At(el, n - 1)
             a == adjacencyFace(el, n - 1, adj)
         IN  pushBack(pushBack(a, e.faces[1], e.faces[2]),
                      e.faces[2], e.faces[1])

\* TM_EDGE: the loop over the first n entries of a share list xs, linking
\* tetrahedron t with each of them
RECURSIVE linkShared(_, _, _, _)
linkShared(adj, t, xs, n) ==
    IF n = 0
    THEN adj
    ELSE LET a == linkShared(adj, t, xs, n - 1)
         IN  pushBack(pushBack(a, t, xs[n]), xs[n], t)

\* the face indices the edges of el name
edgeFaces(el) == {At(el, i).faces[j] : i \in 0..(Size(el) - 1), j \in 1..2}

\* TM_EDGE: faceShareList holds 2 * edgeList.size() entries; slot f exists
\* only below that size
allocated(el, f) == f < 2 * Size(el)

\* What the memory behind faceShareList may hold when read as a vector<int>:
\* nothing, or one value, a tetrahedron index or not
Garbage(numTet) == {<<>>} \cup {<<x>> : x \in 0..numTet}

\* TM_EDGE: the state after the first n edges; g is what the slots outside
\* faceShareList hold when first read
RECURSIVE adjacencyEdge(_, _, _, _)
adjacencyEdge(el, n, adj, g) ==
    IF n = 0
    THEN [adj |-> adj,
          share |-> [f \in edgeFaces(el) |->
                        IF allocated(el, f) THEN <<>> ELSE g[f]],
          oob |-> FALSE]
    ELSE LET q  == adjacencyEdge(el, n - 1, adj, g)
             i  == n - 1
             f0 == At(el, i).faces[1]
             f1 == At(el, i).faces[2]
             a0 == pushBack(pushBack(q.adj, 2 * i, 2 * i + 1), 2 * i + 1, 2 * i)
             a1 == linkShared(a0, 2 * i, q.share[f0], Size(q.share[f0]))
             a2 == linkShared(a1, 2 * i + 1, q.share[f1], Size(q.share[f1]))
             s1 == [q.share EXCEPT ![f0] = Append(@, 2 * i)]
             s2 == [s1 EXCEPT ![f1] = Append(@, 2 * i + 1)]
         IN  [adj |-> a2, share |-> s2,
              oob |-> q.oob \/ ~allocated(el, f0) \/ ~allocated(el, f1)]

\* linkPair adding the neighbor to the current wedge's list only
linkPairOneWay(st, pa) ==
    IF pa \notin DOMAIN st.edges
    THEN [st EXCEPT !.edges = [q \in DOMAIN st.edges \cup {pa} |->
                                  IF q = pa THEN st.cur ELSE st.edges[q]]]
    ELSE [st EXCEPT !.adj = pushBack(st.adj, st.cur, st.edges[pa])]

\* TM_VERTEX / TM_VFACE: one side of a wedge; pa is the directed pair
linkPair(st, pa) ==
    IF pa \notin DOMAIN st.edges
    THEN [st EXCEPT !.edges = [q \in DOMAIN st.edges \cup {pa} |->
                                  IF q = pa THEN st.cur ELSE st.edges[q]]]
    ELSE [st EXCEPT !.adj = pushBack(pushBack(st.adj, st.cur, st.edges[pa]),
                                     st.edges[pa], st.cur)]

\* wedgePairs with both pairs stored smaller index first, as makeEdgeList
\* stores its pairs
wedgePairsCanonical(v, j) ==
    LET s == At(v.connectedTriangles, 2 * j)
        t == At(v.connectedTriangles, 2 * j + 1)
    IN  <<IF v.index > s THEN <<s, v.index>> ELSE <<v.index, s>>,
          IF t > v.index THEN <<v.index, t>> ELSE <<t, v.index>>>>

\* TM_VERTEX / TM_VFACE: the directed pairs pa1 and pa2 of wedge j of v
wedgePairs(v, j) ==
    LET s == At(v.connectedTriangles, 2 * j)
        t == At(v.connectedTriangles, 2 * j + 1)
    IN  <<<<v.index, s>>, <<t, v.index>>>>

\* TM_VERTEX / TM_VFACE: vertex v after its first n wedges; clique is adj
RECURSIVE adjacencyFan(_, _, _, _)
adjacencyFan(v, clique, n, st) ==
    IF n = 0
    THEN st
    ELSE LET q   == adjacencyFan(v, clique, n - 1, st)
             pa  == wedgePairs(v, n - 1)
             q0  == [q EXCEPT !.adj = [q.adj EXCEPT ![q.cur + 1] = @ \o clique]]
             q1  == linkPair(q0, pa[1])
             q2  == linkPair(q1, pa[2])
         IN  [q2 EXCEPT !.cur = @ + 1]

\* TM_VERTEX / TM_VFACE: the state after the first m vertices
RECURSIVE adjacencyVertices(_, _, _)
adjacencyVertices(vl, m, adj) ==
    IF m = 0
    THEN [adj |-> adj, edges |-> <<>>, cur |-> 0]
    ELSE LET q  == adjacencyVertices(vl, m - 1, adj)
             v  == At(vl, m - 1)
             nw == Size(v.connectedTriangles) \div 2
         IN  adjacencyFan(v, [j \in 1..nw |-> q.cur + (j - 1)], nw, q)

\* the adjacency list built, and whether a slot outside faceShareList was used
makeAdjacencyList(tm, tl, el, vl, g) ==
    LET empty == [n \in 1..(Size(tl) \div 4) |-> <<>>]
    IN  IF tm = TM_FACE
        THEN [adjacencyList |-> adjacencyFace(el, Size(el), empty),
              oob |-> FALSE]
        ELSE IF tm = TM_EDGE
        THEN LET r == adjacencyEdge(el, Size(el), empty, g)
             IN  [adjacencyList |-> r.adj, oob |-> r.oob]
        ELSE IF tm = TM_VERTEX \/ tm = TM_VFACE
        THEN [adjacencyList |-> adjacencyVertices(vl, Size(vl), empty).adj,
              oob |-> FALSE]
        ELSE [adjacencyList |-> empty, oob |-> FALSE]

-----------------------------------------------------------------------------
(* distPtLin and distPtTri.  A double is a record [k, n, d]: the fraction  *)
(* n / d (d > 0) when k = "fin", +infinity (HUGE_VAL) when k = "inf", NaN  *)
(* when k = "nan".  Points are triples of integers.                        *)

Fin(n, d) == [k |-> "fin", n |-> n, d |-> d]

HUGE_VAL == [k |-> "inf", n |-> 0, d |-> 1]

NaN == [k |-> "nan", n |-> 0, d |-> 1]

Sub3(a, b) == <<a[1] - b[1], a[2] - b[2], a[3] - b[3]>>

Dot3(a, b) == a[1] * b[1] + a[2] * b[2] + a[3] * b[3]

Cross3(a, b) ==
    <<a[2] * b[3] - a[3] * b[2],
      a[3] * b[1] - a[1] * b[3],
      a[1] * b[2] - a[2] * b[1]>>

\* x < y on doubles; every comparison with NaN is false
Less(x, y) ==
    IF x.k = "nan" \/ y.k = "nan" THEN FALSE
    ELSE IF x.k = "inf" THEN FALSE
    ELSE IF y.k = "inf" THEN TRUE
    ELSE x.n * y.d < y.n * x.d

\* std::min(x, y)
min(x, y) == IF Less(y, x) THEN y ELSE x

\* the quotient num / den of two doubles with integer values
Quotient(num, den) ==
    IF den # 0 THEN Fin(IF den < 0 THEN -num ELSE num, Abs(den))
    ELSE IF num = 0 THEN NaN
    ELSE HUGE_VAL

distPtLin(p, a, b) ==
    LET ab  == Sub3(a, b)
        pb  == Sub3(p, b)
        num == Dot3(ab, pb)
        den == Dot3(ab, ab)
        t   == Quotient(num, den)
    IN  IF Less(Fin(1, 1), t)
        THEN Fin(Dot3(Sub3(a, p), Sub3(a, p)), 1)
        ELSE IF Less(t, Fin(0, 1))
        THEN Fin(Dot3(Sub3(b, p), Sub3(b, p)), 1)
        ELSE IF t.k = "nan"
        THEN NaN
        ELSE LET w == <<t.n * ab[1] - t.d * pb[1],
                        t.n * ab[2] - t.d * pb[2],
                        t.n * ab[3] - t.d * pb[3]>>
             IN  Fin(Dot3(w, w), t.d * t.d)

\* v(0) > 0 && v(1) > 0 && v(0) + v(1) < 1 for v = A.inverse() * w, the columns
\* of A being c0, c1, c2.  v is found by Cramer's rule; when A is singular
\* every coordinate of v is infinite or NaN and the test fails.
baryInside(c0, c1, c2, w) ==
    LET detA == Det3(<<c0[1], c1[1], c2[1]>>, <<c0[2], c1[2], c2[2]>>,
                     <<c0[3], c1[3], c2[3]>>)
        n0   == Det3(<<w[1], c1[1], c2[1]>>, <<w[2], c1[2], c2[2]>>,
                     <<w[3], c1[3], c2[3]>>)
        n1   == Det3(<<c0[1], w[1], c2[1]>>, <<c0[2], w[2], c2[2]>>,
                     <<c0[3], w[3], c2[3]>>)
    IN  /\ detA # 0
        /\ n0 * detA > 0
        /\ n1 * detA > 0
        /\ (n0 + n1) * detA < detA * detA

\* outerHalfSpace testing the sign of n.dot(p - a)
outerHalfSpaceFlipped(n, a, p) == Dot3(n, Sub3(p, a)) < 0

\* k = n.dot(a - p) < 0: p lies in the outer half-space of the triangle
outerHalfSpace(n, a, p) == Dot3(n, Sub3(a, p)) < 0

distPtTri(p, a, b, c) ==
    LET n == Cross3(Sub3(b, a), Sub3(c, a))
        k == Dot3(n, Sub3(a, p))
    IN  IF Dot3(n, n) * EPSILON_DEN < EPSILON_NUM
        THEN Fin(Dot3(Sub3(p, a), Sub3(p, a)), 1)
        ELSE IF outerHalfSpace(n, a, p)
        THEN HUGE_VAL
        ELSE LET s0 == distPtLin(p, a, b)
                 s1 == distPtLin(p, b, c)
                 s2 == distPtLin(p, c, a)
                 s3 == IF baryInside(Sub3(b, a), Sub3(c, a), Sub3(n, a),
                                     Sub3(p, a))
                       THEN Fin(k * k, 1)
                       ELSE HUGE_VAL
             IN  min(min(min(s0, s1), s2), s3)

-----------------------------------------------------------------------------
(* Inputs *)

Points == 0..(NumPoints - 1)

\* The triangles of the inputs, on the points 0..3: point 3 lies off the
\* line through 0, 1 and 2.  <<0,1,2>> has no area; <<0,1,3>> and <<1,2,3>>
\* are counterclockwise and share the side {1,3}; <<3,1,0>> and <<3,2,1>> are
\* their reversals; <<2,3,0>> covers both and shares sides with each.
Triangles ==
    {<<0, 1, 2>>, <<0, 1, 3>>, <<3, 1, 0>>, <<1, 2, 3>>, <<3, 2, 1>>,
     <<2, 3, 0>>}

\* the sequences of at most n elements of S
SeqUpTo(S, n) == UNION {[1..m -> S] : m \in 0..n}

\* the fan of point v in triangle list fl: one neighbor pair per triangle
\* that has v as a corner, so that v and the pair form that oriented triangle
RECURSIVE fanOf(_, _, _)
fanOf(fl, v, n) ==
    IF n = 0
    THEN <<>>
    ELSE LET i == n - 1
             a == At(fl, 3 * i)
             b == At(fl, 3 * i + 1)
             c == At(fl, 3 * i + 2)
         IN  fanOf(fl, v, n - 1) \o
             (IF a = v THEN <<b, c>>
              ELSE IF b = v THEN <<c, a>>
              ELSE IF c = v THEN <<a, b>>
              ELSE <<>>)

\* the vertex list of a mesh: one record per point
vertexFans(fl) ==
    [n \in 1..NumPoints |-> vertex(n - 1, fanOf(fl, n - 1, Size(fl) \div 3))]

\* the points of the distance queries
DistPoints ==
    {<<0, 0, 0>>, <<1, 0, 0>>, <<0, 1, 0>>, <<0, 0, 1>>, <<0, 0, -1>>,
     <<1, 1, 0>>, <<2, 0, 0>>}

NoResult == [op |-> "none", val |-> Fin(0, 1)]

NoPrev ==
    [faceList |-> <<>>, edgeList |-> <<>>, vertexList |-> <<>>,
     tetList |-> <<>>, dim |-> 0, P |-> <<>>]

-----------------------------------------------------------------------------
(* The tetrahedralization pipeline *)

InitDistIdle ==
    /\ dp = <<0, 0, 0>>
    /\ da = <<0, 0, 0>>
    /\ db = <<0, 0, 0>>
    /\ dc = <<0, 0, 0>>
    /\ dres = NoResult

Init ==
    /\ tetMode \in Modes
    /\ \E tris \in SeqUpTo(Triangles, MaxFaces) :
          /\ faceList = Flatten(tris)
          /\ vertexList = vertexFans(Flatten(tris))
          /\ faceId = [n \in 1..Len(tris) |-> n]
    /\ edgeList = <<>>
    /\ tetList = <<>>
    /\ dim = 0
    /\ P = <<>>
    /\ adjacencyList = <<>>
    /\ oob = FALSE
    /\ pc = "input"
    /\ round = 0
    /\ prev = NoPrev
    /\ InitDistIdle

MakeEdgeList ==
    /\ pc = "input"
    /\ edgeList' = makeEdgeList(faceList)
    /\ pc' = "edges"
    /\ UNCHANGED <<tetMode, faceList, vertexList, tetList, dim, P,
                   adjacencyList, oob, round, faceId, prev>>
    /\ UNCHANGED distVars

MakeTetList ==
    /\ pc = "edges"
    /\ LET r == makeTetList(tetMode, NumPoints, faceList, edgeList, vertexList)
       IN  /\ tetList' = r.tetList
           /\ dim' = r.dim
    /\ pc' = "tets"
    /\ UNCHANGED <<tetMode, faceList, edgeList, vertexList, P,
                   adjacencyList, oob, round, faceId, prev>>
    /\ UNCHANGED distVars

TetMatrix ==
    /\ pc = "tets"
    /\ \E zn \in ZeroNormalized :
          P' = tetMatrix(tetMode, tetList, faceList, edgeList, vertexList, zn)
    /\ pc' = "frames"
    /\ UNCHANGED <<tetMode, faceList, edgeList, vertexList, tetList, dim,
                   adjacencyList, oob, round, faceId, prev>>
    /\ UNCHANGED distVars

RemoveDegenerate ==
    /\ pc = "frames"
    /\ round < MaxRounds
    /\ LET r == removeDegenerate(tetMode, NumPoints, tetList, faceList,
                                 edgeList, vertexList, P)
       IN  /\ faceList' = r.faceList
           /\ edgeList' = r.edgeList
           /\ vertexList' = r.vertexList
           /\ tetList' = r.tetList
           /\ dim' = r.dim
    /\ prev' = [faceList |-> faceList, edgeList |-> edgeList,
                vertexList |-> vertexList, tetList |-> tetList,
                dim |-> dim, P |-> P]
    /\ round' = round + 1
    /\ pc' = "tets"
    /\ UNCHANGED <<tetMode, P, adjacencyList, oob, faceId>>
    /\ UNCHANGED distVars

MakeAdjacencyList ==
    /\ pc = "tets"
    /\ \E g \in [{f \in edgeFaces(edgeList) : ~allocated(edgeList, f)} ->
                    Garbage(Size(tetList) \div 4)] :
          LET r == makeAdjacencyList(tetMode, tetList, edgeList, vertexList, g)
          IN  /\ adjacencyList' = r.adjacencyList
              /\ oob' = r.oob
    /\ pc' = "adj"
    /\ UNCHANGED <<tetMode, faceList, edgeList, vertexList, tetList, dim, P,
                   round, faceId, prev>>
    /\ UNCHANGED distVars

Next ==
    \/ MakeEdgeList
    \/ MakeTetList
    \/ TetMatrix
    \/ RemoveDegenerate
    \/ MakeAdjacencyList

Spec == Init /\ [][Next]_vars

-----------------------------------------------------------------------------
(* Reordering the triangle list before the edges are extracted *)

\* s with the elements at positions n and n + 1 exchanged
swapAt(s, n) ==
    [m \in 1..Len(s) |-> IF m = n THEN s[n + 1] ELSE IF m = n + 1 THEN s[n] ELSE s[m]]

\* the caller exchanges triangles n-1 and n of faceList; faceId keeps track
\* of which triangle of the original list stands where
Shuffle ==
    /\ pc = "input"
    /\ \E n \in 1..(Len(faceId) - 1) :
          /\ faceList' = Flatten(swapAt([m \in 1..Len(faceId) |->
                                            <<At(faceList, 3 * (m - 1)),
                                              At(faceList, 3 * (m - 1) + 1),
                                              At(faceList, 3 * (m - 1) + 2)>>], n))
          /\ faceId' = swapAt(faceId, n)
    /\ UNCHANGED <<tetMode, edgeList, vertexList, tetList, dim, P,
                   adjacencyList, oob, pc, round, prev>>
    /\ UNCHANGED distVars

InitShuffle == Init /\ tetMode = TM_FACE

NextShuffle ==
    \/ Shuffle
    \/ MakeEdgeList

SpecShuffle == InitShuffle /\ [][NextShuffle]_vars

-----------------------------------------------------------------------------
(* The distance queries *)

InitDist ==
    /\ tetMode = TM_FACE
    /\ faceList = <<>>
    /\ edgeList = <<>>
    /\ vertexList = <<>>
    /\ faceId = <<>>
    /\ tetList = <<>>
    /\ dim = 0
    /\ P = <<>>
    /\ adjacencyList = <<>>
    /\ oob = FALSE
    /\ pc = "dist"
    /\ round = 0
    /\ prev = NoPrev
    /\ dp \in DistPoints
    /\ da \in DistPoints
    /\ db \in DistPoints
    /\ dc \in DistPoints
    /\ dres = NoResult

DistPtLin ==
    /\ dres.op = "none"
    /\ dres' = [op |-> "lin", val |-> distPtLin(dp, da, db)]
    /\ UNCHANGED <<dp, da, db, dc>>
    /\ UNCHANGED topoVars

DistPtTri ==
    /\ dres.op = "none"
    /\ dres' = [op |-> "tri", val |-> distPtTri(dp, da, db, dc)]
    /\ UNCHANGED <<dp, da, db, dc>>
    /\ UNCHANGED topoVars

NextDist ==
    \/ DistPtLin
    \/ DistPtTri

SpecDist == InitDist /\ [][NextDist]_vars

-----------------------------------------------------------------------------
(* Vocabulary of the properties *)

Range(s) == {s[n] : n \in 1..Len(s)}

numFaces == Size(faceList) \div 3

numTets == Size(tetList) \div 4

\* the number of neighbor pairs (wedges) of a vertex record
numPairs(v) == Size(v.connectedTriangles) \div 2

\* the number of occurrences of x in s
Count(s, x) == Cardinality({n \in 1..Len(s) : s[n] = x})

RECURSIVE SumPairs(_, _)
SumPairs(vl, n) == IF n = 0 THEN 0 ELSE SumPairs(vl, n - 1) + numPairs(vl[n])

\* tetList and dim are what makeTetList returned for the current base lists
TetsBuilt == pc \in {"tets", "frames", "adj"}

\* edgeList is what makeEdgeList returned for the current faceList
EdgesFresh == pc # "input" /\ pc # "dist" /\ (round = 0 \/ tetMode # TM_EDGE)

\* the triangles of fl (0-based) that have the points s and t as a side
TrianglesOn(fl, s, t) ==
    {i \in 0..((Size(fl) \div 3) - 1) :
        {s, t} \subseteq {At(fl, 3 * i), At(fl, 3 * i + 1), At(fl, 3 * i + 2)}}

\* the positions (1-based) of the edges of el between the points s and t
EdgesOn(el, s, t) ==
    {n \in 1..Len(el) : {el[n].vertices[1], el[n].vertices[2]} = {s, t}}

PointPairs == {pr \in Points \X Points : pr[1] < pr[2]}

\* the number of ghost points of the mode, counted on the base lists
GhostCount ==
    IF tetMode = TM_FACE THEN numFaces
    ELSE IF tetMode = TM_EDGE THEN Size(edgeList)
    ELSE IF tetMode = TM_VERTEX THEN Size(vertexList)
    ELSE SumPairs(vertexList, Len(vertexList))

\* the smallest element of a set of integers
SetMin(S) == CHOOSE x \in S : \A y \in S : x <= y

\* distPtTri has answered a query on the triangle (0,0,0), (1,0,0), (0,1,0)
UnitTriangle ==
    /\ dres.op = "tri"
    /\ da = <<0, 0, 0>>
    /\ db = <<1, 0, 0>>
    /\ dc = <<0, 1, 0>>

\* the tetrahedra (0-based) of the vertex with point index idx
TetsOf(idx) == {i \in 0..(numTets - 1) : At(tetList, 4 * i) = idx}

VertexModeBuilt == TetsBuilt /\ tetMode \in {TM_VERTEX, TM_VFACE}

-----------------------------------------------------------------------------
(* C1: in every mode the value makeTetList returns is numRealPoints plus   *)
(* the number of ghost points of the mode (faces, edges, vertex records,   *)
(* wedges), and the apex of every tetrahedron of the tetList it built lies *)
(* in [numRealPoints, returned value).                                     *)

C1_TotalAndApexRange ==
    TetsBuilt =>
        /\ dim = NumPoints + GhostCount
        /\ \A i \in 0..(numTets - 1) :
              /\ At(tetList, 4 * i + 3) >= NumPoints
              /\ At(tetList, 4 * i + 3) < dim

\* a filtered vface cage with two or more tetrahedra
C1_Witness ==
    /\ pc = "tets"
    /\ round = 1
    /\ tetMode = TM_VFACE
    /\ numTets >= 2
    /\ Len(vertexList) < NumPoints

-----------------------------------------------------------------------------
(* C2 as claimed: for every triangle list, makeEdgeList holds an edge for  *)
(* a point pair if and only if the pair is a side of exactly two triangles *)
(* of the list; such a pair is emitted exactly once, smaller index first,  *)
(* with those two triangles as its adjacent faces; a pair that is a side   *)
(* of one triangle only is never emitted.                                  *)

C2_ExactlyTwoTriangles ==
    EdgesFresh =>
        \A pr \in PointPairs :
            LET T  == TrianglesOn(faceList, pr[1], pr[2])
                es == EdgesOn(edgeList, pr[1], pr[2])
            IN  /\ (es # {}) <=> (Cardinality(T) = 2)
                /\ Cardinality(T) = 2 => Cardinality(es) = 1
                /\ \A n \in es :
                      /\ edgeList[n].vertices = <<pr[1], pr[2]>>
                      /\ {edgeList[n].faces[1], edgeList[n].faces[2]} = T

(* C2 as amended: makeEdgeList holds an edge for a point pair if and only  *)
(* if the pair is a side of at least two triangles of the list.  A pair    *)
(* that is a side of k >= 2 triangles is emitted k - 1 times, each time    *)
(* smaller index first, with the first of its triangles as the first       *)
(* adjacent face and each later one of them, once, as the second; so a     *)
(* pair of exactly two triangles is emitted exactly once, with those two   *)
(* triangles.  A pair that is a side of one triangle only is never         *)
(* emitted.                                                                *)

C2_AtLeastTwoTriangles ==
    EdgesFresh =>
        /\ \A n \in 1..Len(edgeList) :
              <<edgeList[n].vertices[1], edgeList[n].vertices[2]>> \in PointPairs
        /\ \A pr \in PointPairs :
              LET T  == TrianglesOn(faceList, pr[1], pr[2])
                  es == EdgesOn(edgeList, pr[1], pr[2])
              IN  /\ (es # {}) <=> (Cardinality(T) >= 2)
                  /\ Cardinality(T) >= 2 =>
                        /\ Cardinality(es) = Cardinality(T) - 1
                        /\ {edgeList[n].faces[2] : n \in es} = T \ {SetMin(T)}
                  /\ Cardinality(T) = 2 =>
                        \A n \in es :
                            {edgeList[n].faces[1], edgeList[n].faces[2]} = T
                  /\ \A n \in es :
                        /\ edgeList[n].vertices = <<pr[1], pr[2]>>
                        /\ edgeList[n].faces[1] = SetMin(T)

\* an edge list with an interior pair, a boundary pair and a pair of three
\* triangles
C2_Witness ==
    /\ pc = "edges"
    /\ \E pr \in PointPairs :
          /\ Cardinality(TrianglesOn(faceList, pr[1], pr[2])) = 2
          /\ EdgesOn(edgeList, pr[1], pr[2]) # {}
    /\ \E pr \in PointPairs :
          Cardinality(TrianglesOn(faceList, pr[1], pr[2])) = 1
    /\ \E pr \in PointPairs :
          /\ Cardinality(TrianglesOn(faceList, pr[1], pr[2])) = 3
          /\ Cardinality(EdgesOn(edgeList, pr[1], pr[2])) = 2

-----------------------------------------------------------------------------
(* Degeneracy of the frames removeDegenerate was given *)

\* tetrahedron t of the frame list Pm is degenerate: |det| <= EPSILON
Degenerate(Pm, t) ==
    LET d == Determinant(At(Pm, t))
    IN  d.nan \/ Abs(d.v) * EPSILON_DEN <= EPSILON_NUM

\* the n-th smallest element (n from 1) of a set of integers
NthOf(S, n) == CHOOSE x \in S : Cardinality({y \in S : y < x}) = n - 1

\* s keeps exactly the elements of old at the (0-based) positions in K, in
\* their order
KeepsExactly(s, old, K) ==
    /\ Len(s) = Cardinality(K)
    /\ \A n \in 1..Len(s) : s[n] = At(old, NthOf(K, n))

\* the first wedge (tetrahedron) index of vertex i of vl
FirstWedge(vl, i) == SumPairs(vl, i)

Filtered == round >= 1 /\ pc \in {"tets", "frames", "adj"}

-----------------------------------------------------------------------------
(* C3 as claimed: in per-edge mode removeDegenerate drops an edge only if  *)
(* both of its tetrahedra (frames P[2i], P[2i+1]) are degenerate; an edge  *)
(* with exactly one degenerate tetrahedron is kept.                        *)

C3_DropsOnlyIfBothDegenerate ==
    (Filtered /\ tetMode = TM_EDGE) =>
        \A i \in 0..(Size(prev.edgeList) - 1) :
            ~(Degenerate(prev.P, 2 * i) /\ Degenerate(prev.P, 2 * i + 1))
                => At(prev.edgeList, i) \in Range(edgeList)

(* C3 as amended: in per-edge mode removeDegenerate drops an edge if and   *)
(* only if at least one of its two tetrahedra is degenerate; an edge with  *)
(* exactly one degenerate tetrahedron is dropped; the edges whose two      *)
(* tetrahedra are both non-degenerate are kept, in their original order.   *)

C3_DropsIfEitherDegenerate ==
    (Filtered /\ tetMode = TM_EDGE) =>
        KeepsExactly(edgeList, prev.edgeList,
                     {i \in 0..(Size(prev.edgeList) - 1) :
                         ~Degenerate(prev.P, 2 * i) /\ ~Degenerate(prev.P, 2 * i + 1)})

\* an edge with exactly one degenerate tetrahedron was dropped and another
\* edge was kept
C3_Witness ==
    /\ Filtered
    /\ tetMode = TM_EDGE
    /\ edgeList # <<>>
    /\ \E i \in 0..(Size(prev.edgeList) - 1) :
          /\ Degenerate(prev.P, 2 * i) # Degenerate(prev.P, 2 * i + 1)
          /\ At(prev.edgeList, i) \notin Range(edgeList)

-----------------------------------------------------------------------------
(* C4 as claimed: in per-vertex and vface modes removeDegenerate drops a   *)
(* vertex record only if every wedge of the vertex is degenerate; a vertex *)
(* with at least one non-degenerate wedge is kept with its whole fan.      *)

C4_DropsOnlyIfAllDegenerate ==
    (Filtered /\ tetMode \in {TM_VERTEX, TM_VFACE}) =>
        \A i \in 0..(Size(prev.vertexList) - 1) :
            (\E j \in 0..(numPairs(At(prev.vertexList, i)) - 1) :
                ~Degenerate(prev.P, FirstWedge(prev.vertexList, i) + j))
                => At(prev.vertexList, i) \in Range(vertexList)

(* C4 as amended: in per-vertex and vface modes removeDegenerate drops a   *)
(* vertex record (and all its wedges) if and only if at least one wedge of *)
(* the vertex is degenerate; a vertex all of whose wedges are              *)
(* non-degenerate, one without wedges included, is kept with its whole     *)
(* fan, in the original order.                                             *)

C4_DropsIfAnyDegenerate ==
    (Filtered /\ tetMode \in {TM_VERTEX, TM_VFACE}) =>
        KeepsExactly(vertexList, prev.vertexList,
                     {i \in 0..(Size(prev.vertexList) - 1) :
                         \A j \in 0..(numPairs(At(prev.vertexList, i)) - 1) :
                             ~Degenerate(prev.P, FirstWedge(prev.vertexList, i) + j)})

\* a vertex with a degenerate and a non-degenerate wedge was dropped and
\* another vertex with wedges was kept
C4_Witness ==
    /\ Filtered
    /\ tetMode \in {TM_VERTEX, TM_VFACE}
    /\ \E n \in 1..Len(vertexList) : numPairs(vertexList[n]) >= 1
    /\ \E i \in 0..(Size(prev.vertexList) - 1) :
          /\ \E j \in 0..(numPairs(At(prev.vertexList, i)) - 1) :
                ~Degenerate(prev.P, FirstWedge(prev.vertexList, i) + j)
          /\ \E j \in 0..(numPairs(At(prev.vertexList, i)) - 1) :
                Degenerate(prev.P, FirstWedge(prev.vertexList, i) + j)
          /\ At(prev.vertexList, i) \notin Range(vertexList)

-----------------------------------------------------------------------------
(* C5 as claimed: for the triangle a=(0,0,0), b=(1,0,0), c=(0,1,0),        *)
(* distPtTri returns a finite squared distance for the query point (0,0,1) *)
(* and the sentinel HUGE_VAL for the query point (0,0,-1).                 *)

C5_AboveFiniteBelowSentinel ==
    UnitTriangle =>
        /\ dp = <<0, 0, 1>> => dres.val.k = "fin"
        /\ dp = <<0, 0, -1>> => dres.val = HUGE_VAL

(* C5 as amended: for a triangle with area, a point strictly on the side   *)
(* of its plane that the normal (b-a) x (c-a) points to gets the sentinel  *)
(* HUGE_VAL from distPtTri, and a point strictly on the other side (or in  *)
(* the plane) gets a finite result: for the triangle a=(0,0,0),            *)
(* b=(1,0,0), c=(0,1,0) the query point (0,0,1) returns the sentinel and   *)
(* the query point (0,0,-1) returns the finite squared distance 1.         *)

C5_NormalSideSentinel ==
    /\ UnitTriangle =>
          /\ dp = <<0, 0, 1>> => dres.val = HUGE_VAL
          /\ dp = <<0, 0, -1>> => (dres.val.k = "fin" /\ dres.val.n = dres.val.d)
    /\ dres.op = "tri" =>
          LET n == Cross3(Sub3(db, da), Sub3(dc, da))
          IN  Dot3(n, n) # 0 =>
                 /\ Dot3(n, Sub3(dp, da)) > 0 => dres.val = HUGE_VAL
                 /\ Dot3(n, Sub3(dp, da)) <= 0 => dres.val.k = "fin"

\* the query from (0,0,-1) on the triangle of the claim, answered
C5_Witness ==
    /\ UnitTriangle
    /\ dp = <<0, 0, -1>>
    /\ dres.val.k = "fin"

-----------------------------------------------------------------------------
(* C6: degeneracy filtering is a fixed point in every mode: after one      *)
(* removeDegenerate call, recomputing the frames of the rebuilt tetList    *)
(* from the same points and calling removeDegenerate again leaves          *)
(* faceList, edgeList, vertexList, tetList and the returned total point    *)
(* count as they were after the first call.                                *)

C6_FilterFixedPoint ==
    (round >= 2 /\ pc \in {"tets", "frames", "adj"}) =>
        /\ faceList = prev.faceList
        /\ edgeList = prev.edgeList
        /\ vertexList = prev.vertexList
        /\ tetList = prev.tetList
        /\ dim = prev.dim

\* per-edge mode, after the second call: the first call had dropped edges
\* and kept others
C6_Witness ==
    /\ round = 2
    /\ pc = "tets"
    /\ tetMode = TM_EDGE
    /\ edgeList # <<>>
    /\ Size(edgeList) < Size(makeEdgeList(faceList))

-----------------------------------------------------------------------------
(* C7 as claimed: in per-vertex and vface modes a vertex whose fan holds   *)
(* zero or one neighbor pair contributes no tetrahedron to the tetList     *)
(* makeTetList builds.                                                     *)

C7_ZeroOrOnePairNoTet ==
    VertexModeBuilt =>
        \A n \in 1..Len(vertexList) :
            numPairs(vertexList[n]) <= 1 => TetsOf(vertexList[n].index) = {}

(* C7 as amended: in per-vertex and vface modes a vertex whose fan holds   *)
(* no neighbor pair contributes no tetrahedron to the tetList makeTetList  *)
(* builds; a vertex whose fan holds exactly one neighbor pair contributes  *)
(* exactly one tetrahedron (vertex, neighbor0, neighbor1, apex), whose     *)
(* apex is a ghost point.                                                  *)

C7_OnePairOneTet ==
    VertexModeBuilt =>
        \A n \in 1..Len(vertexList) :
            LET v == vertexList[n]
            IN  /\ numPairs(v) = 0 => TetsOf(v.index) = {}
                /\ numPairs(v) = 1 =>
                      /\ Cardinality(TetsOf(v.index)) = 1
                      /\ \A i \in TetsOf(v.index) :
                            /\ At(tetList, 4 * i + 1) = At(v.connectedTriangles, 0)
                            /\ At(tetList, 4 * i + 2) = At(v.connectedTriangles, 1)
                            /\ At(tetList, 4 * i + 3) >= NumPoints

\* a tetList built from a vertex list with a vertex without pairs and a
\* vertex with one pair, which has its tetrahedron
C7_Witness ==
    /\ VertexModeBuilt
    /\ \E n \in 1..Len(vertexList) : numPairs(vertexList[n]) = 0
    /\ \E n \in 1..Len(vertexList) :
          /\ numPairs(vertexList[n]) = 1
          /\ TetsOf(vertexList[n].index) # {}

-----------------------------------------------------------------------------
(* C8: the adjacency list makeAdjacencyList builds is symmetric in every   *)
(* mode: for all tetrahedron indices a and b, b occurs in adjacencyList[a] *)
(* as often as a occurs in adjacencyList[b].                               *)

C8_AdjacencySymmetric ==
    pc = "adj" =>
        /\ Len(adjacencyList) = numTets
        /\ \A a \in 0..(numTets - 1) : \A b \in 0..(numTets - 1) :
              Count(At(adjacencyList, a), b) = Count(At(adjacencyList, b), a)

\* two different tetrahedra are neighbors twice over
C8_Witness ==
    /\ pc = "adj"
    /\ \E a \in 0..(numTets - 1) : \E b \in 0..(numTets - 1) :
          /\ a # b
          /\ Count(At(adjacencyList, a), b) >= 2

\* the identity of the triangle at (0-based) position f under ids; 0 when
\* no triangle stands there
IdOf(ids, f) == IF f + 1 \in DOMAIN ids THEN ids[f + 1] ELSE 0

EdgeIdSet(el, ids) ==
    {<<{e.vertices[1], e.vertices[2]},
       {IdOf(ids, e.faces[1]), IdOf(ids, e.faces[2])}>> : e \in Range(el)}

\* the triangle list before any reordering: triangle m is the one with
\* identity m
OriginalFaceList ==
    Flatten([m \in 1..Len(faceId) |->
                LET n == CHOOSE q \in 1..Len(faceId) : faceId[q] = m
                IN  <<At(faceList, 3 * (n - 1)), At(faceList, 3 * (n - 1) + 1),
                      At(faceList, 3 * (n - 1) + 2)>>])

AtMostTwoTriangles ==
    \A pr \in PointPairs : Cardinality(TrianglesOn(faceList, pr[1], pr[2])) <= 2

-----------------------------------------------------------------------------
(* C9: edge extraction is invariant under permutation of the triangle      *)
(* list: when every point pair is a side of at most two triangles,         *)
(* reordering the triangles yields the same set of interior edges, each    *)
(* taken as an unordered endpoint pair with the unordered pair of the      *)
(* identities of its two adjacent triangles.                               *)

C9_EdgeSetPermutationInvariant ==
    (pc = "edges" /\ AtMostTwoTriangles) =>
        EdgeIdSet(edgeList, faceId) =
            EdgeIdSet(makeEdgeList(OriginalFaceList),
                      [m \in 1..Len(faceId) |-> m])

\* a reordered list whose edge list differs, as a list, from the one the
\* original order gives
C9_Witness ==
    /\ pc = "edges"
    /\ AtMostTwoTriangles
    /\ faceId # [m \in 1..Len(faceId) |-> m]
    /\ Len(edgeList) >= 2
    /\ edgeList # makeEdgeList(OriginalFaceList)

\* the corners of wedge (tetrahedron) w of tetList: its vertex and its
\* neighbor pair
WedgeCorners(w) == <<At(tetList, 4 * w), At(tetList, 4 * w + 1), At(tetList, 4 * w + 2)>>

\* wedges w1 and w2 are corners of one triangle: their corner triples are
\* rotations of each other
SameTriangle(w1, w2) ==
    LET a == WedgeCorners(w1)
        b == WedgeCorners(w2)
    IN  b \in {a, <<a[2], a[3], a[1]>>, <<a[3], a[1], a[2]>>}

\* the triangles of wedges w1 and w2 both contain one unordered pair of
\* points
ShareMeshEdge(w1, w2) ==
    Cardinality(Range(WedgeCorners(w1)) \cap Range(WedgeCorners(w2))) >= 2

\* the directed sides of triangle i (0-based) of fl
DirectedSides(fl, i) ==
    {<<At(fl, 3 * i), At(fl, 3 * i + 1)>>, <<At(fl, 3 * i + 1), At(fl, 3 * i + 2)>>,
     <<At(fl, 3 * i + 2), At(fl, 3 * i)>>}

\* no directed side belongs to two triangles of faceList
ConsistentlyOriented ==
    \A i \in 0..(numFaces - 1) : \A k \in 0..(numFaces - 1) :
        i # k => DirectedSides(faceList, i) \cap DirectedSides(faceList, k) = {}

\* makeAdjacencyList has run in a vertex mode on a consistently oriented
\* mesh whose fans list every incident triangle
OrientedFansAdjacent ==
    /\ pc = "adj"
    /\ tetMode \in {TM_VERTEX, TM_VFACE}
    /\ vertexList = vertexFans(faceList)
    /\ ConsistentlyOriented

-----------------------------------------------------------------------------
(* C10: distPtLin(p, a, b) called with a = b is guarded against the zero   *)
(* denominator |a-b|^2 and returns a well-defined value, the squared       *)
(* distance from p to a.                                                   *)

C10_EqualEndpointsGuarded ==
    (dres.op = "lin" /\ da = db) =>
        /\ dres.val.k = "fin"
        /\ dres.val.n = Dot3(Sub3(dp, da), Sub3(dp, da)) * dres.val.d

-----------------------------------------------------------------------------
(* C11 as claimed: in per-vertex and vface modes, on a consistently        *)
(* oriented mesh whose fans list every incident triangle as a wedge,       *)
(* makeAdjacencyList makes any two wedges of different vertices whose      *)
(* triangles contain one unordered pair of points adjacent, each in the    *)
(* other's list; wedges of two different triangles on either side of an    *)
(* interior edge included.                                                 *)

C11_SharedEdgeWedgesAdjacent ==
    OrientedFansAdjacent =>
        \A w1 \in 0..(numTets - 1) : \A w2 \in 0..(numTets - 1) :
            (WedgeCorners(w1)[1] # WedgeCorners(w2)[1] /\ ShareMeshEdge(w1, w2)) =>
                /\ Count(At(adjacencyList, w1), w2) >= 1
                /\ Count(At(adjacencyList, w2), w1) >= 1

(* C11 as amended: in per-vertex and vface modes, on a consistently        *)
(* oriented mesh whose fans list every incident triangle as a wedge,       *)
(* makeAdjacencyList makes two wedges of different vertices adjacent,      *)
(* each once in the other's list, exactly when they are wedges of one      *)
(* triangle; wedges of two different triangles on either side of an        *)
(* interior edge are not made adjacent.                                    *)

C11_SameTriangleWedgesAdjacent ==
    OrientedFansAdjacent =>
        \A w1 \in 0..(numTets - 1) : \A w2 \in 0..(numTets - 1) :
            WedgeCorners(w1)[1] # WedgeCorners(w2)[1] =>
                Count(At(adjacencyList, w1), w2)
                    = (IF SameTriangle(w1, w2) THEN 1 ELSE 0)

\* two triangles on either side of an interior edge: two wedges of one of
\* them are adjacent, and two wedges of different vertices, one of each
\* triangle, share the edge
C11_Witness ==
    /\ OrientedFansAdjacent
    /\ \E w1 \in 0..(numTets - 1) : \E w2 \in 0..(numTets - 1) :
          /\ WedgeCorners(w1)[1] # WedgeCorners(w2)[1]
          /\ SameTriangle(w1, w2)
          /\ Count(At(adjacencyList, w1), w2) = 1
    /\ \E w1 \in 0..(numTets - 1) : \E w2 \in 0..(numTets - 1) :
          /\ WedgeCorners(w1)[1] # WedgeCorners(w2)[1]
          /\ ~SameTriangle(w1, w2)
          /\ ShareMeshEdge(w1, w2)

-----------------------------------------------------------------------------
(* C12: in per-edge mode makeAdjacencyList never indexes faceShareList     *)
(* outside the 2 * edgeList.size() entries it allocates, for every edge    *)
(* list makeEdgeList built from a triangle list and any number of per-edge *)
(* removeDegenerate calls filtered.                                        *)

C12_ShareListInRange ==
    (pc = "adj" /\ tetMode = TM_EDGE) => ~oob

====
